---- MODULE Spec2Model ----
(***************************************************************************)
(* Model of the GitHub coding-agent tracker.                               *)
(*                                                                         *)
(* Collector (fetch.ts): for every date of an inclusive range it issues    *)
(* 24 one-hour window searches and one search per agent, strictly one      *)
(* after the other, and writes data/<date>.csv.                            *)
(* Reporter (chart.ts): reads every data/*.csv, drops records without a    *)
(* positive total, computes percentages and the monthly table.             *)
(*                                                                         *)
(* Dates are the integers YYYYMMDD (the zero padded ISO string without the *)
(* dashes, so string order is integer order and the YYYY-MM prefix is      *)
(* date \div 100); instants are YYYYMMDDHH.  Percentages are exact         *)
(* rationals <<numerator, denominator>>: the rounding of the IEEE doubles  *)
(* the program computes with is not modelled.                              *)
(*                                                                         *)
(* The retry of a throttled request is done by the octokit throttling      *)
(* plugin: it calls the handler with the number of retries made so far     *)
(* and sends the request again when the handler returns true.              *)
(***************************************************************************)
EXTENDS Integers, Sequences, FiniteSets, TLC

(* ---------------------------------------------------------------- bounds *)
\* the command line names 2026-02-28 or one of the MaxSpan days after it
MaxSpan == 1
\* the reporter finds files for the first MaxFiles of the ReportDays
MaxFiles == 3
\* the endpoint answers from one of the answer tables 0..MaxSeed
MaxSeed == 1

(* ------------------------------------------------------------- agents.ts *)
AGENTS ==
  << [name |-> "Claude Code",         key |-> "claude",        query |-> "noreply@anthropic.com"],
     [name |-> "GitHub Copilot",      key |-> "copilot",       query |-> "author:copilot-swe-agent[bot]"],
     [name |-> "Devin AI",            key |-> "devin",         query |-> "author:devin-ai-integration[bot]"],
     [name |-> "Aider",               key |-> "aider",         query |-> "aider.chat"],
     [name |-> "OpenAI Codex",        key |-> "codex",         query |-> "author:chatgpt-codex-connector[bot]"],
     [name |-> "OpenCode",            key |-> "opencode",      query |-> "noreply@opencode.ai"],
     [name |-> "Cursor (Editor)",     key |-> "cursor_editor", query |-> "cursoragent@cursor.com"],
     [name |-> "Cursor (Background)", key |-> "cursor_bg",     query |-> "author-email:agent@cursor.com"],
     [name |-> "Google Jules",        key |-> "jules",         query |-> "author:google-labs-jules[bot]"],
     [name |-> "Amazon Q",            key |-> "amazonq",       query |-> "author:amazon-q-developer[bot]"] >>

(* ------------------------------------------------------- maps (JS Map) *)
EmptyMap == [k \in {} |-> 0]

MapSet(m, k, v) == [j \in DOMAIN m \cup {k} |-> IF j = k THEN v ELSE m[j]]

Range(s) == {s[i] : i \in DOMAIN s}

(* ------------------------------------------------------------- calendar *)
IsLeap(y) == (y % 4 = 0 /\ y % 100 # 0) \/ y % 400 = 0

DaysIn(y, m) ==
  IF m = 2 THEN (IF IsLeap(y) THEN 29 ELSE 28)
  ELSE IF m \in {4, 6, 9, 11} THEN 30 ELSE 31

\* Date.setUTCDate(getUTCDate() + 1) followed by toISOString().slice(0, 10)
NextDay(d) ==
  LET y  == d \div 10000
      m  == (d \div 100) % 100
      dd == d % 100
  IN  IF dd < DaysIn(y, m) THEN d + 1
      ELSE IF m < 12 THEN y * 10000 + (m + 1) * 100 + 1
      ELSE (y + 1) * 10000 + 101

RECURSIVE AddDays(_, _)
AddDays(d, n) == IF n = 0 THEN d ELSE AddDays(NextDay(d), n - 1)

\* the dates a command line may name
DateInputs == {AddDays(20260228, n) : n \in 0..MaxSpan}

\* the command lines: no argument, one date, two dates (in any order)
ArgInputs ==
  {<<>>} \cup {<<a>> : a \in DateInputs}
         \cup {<<a, b>> : a \in DateInputs, b \in DateInputs}

(* -------------------------------------------------------------- fetch.ts *)
\* the range taken without its last date
RECURSIVE DatesFromExclusive(_, _)
DatesFromExclusive(current, last) ==
  IF current < last THEN <<current>> \o DatesFromExclusive(NextDay(current), last)
  ELSE <<>>

\* while (current <= last) { dates.push(...); current.setUTCDate(+1) }
RECURSIVE DatesFrom(_, _)
DatesFrom(current, last) ==
  IF current <= last THEN <<current>> \o DatesFrom(NextDay(current), last)
  ELSE <<>>

\* the part of parseDateRange after the usage check
parseDateRange(a) ==
  LET start == a[1]
      end   == IF Len(a) > 1 THEN a[2] ELSE start
  IN  DatesFrom(start, end)

NumWindows == 24

\* String(h).padStart(2, "0") behind the prefix total_
WinKey(h) == IF h < 10 THEN "total_0" \o ToString(h) ELSE "total_" \o ToString(h)

buildTimeWindows(date) ==
  [i \in 1..NumWindows |->
     LET h == i - 1
     IN  [key   |-> WinKey(h),
          start |-> date * 100 + h,
          end   |-> IF h < 23 THEN date * 100 + h + 1 ELSE NextDay(date) * 100]]

\* the agent queries issued before the window queries
QueriesAgentsFirst(date) ==
  [i \in 1..(NumWindows + Len(AGENTS)) |->
     IF i > Len(AGENTS)
     THEN LET win == buildTimeWindows(date)[i - Len(AGENTS)]
          IN  [frag |-> "", from |-> win.start, to |-> win.end, key |-> win.key]
     ELSE LET agent == AGENTS[i]
          IN  [frag |-> agent.query, from |-> date, to |-> date, key |-> agent.key]]

\* the queries fetchDay issues for a date, in the order it issues them:
\* a window query carries no agent fragment, an agent query names the day
Queries(date) ==
  [i \in 1..(NumWindows + Len(AGENTS)) |->
     IF i <= NumWindows
     THEN LET win == buildTimeWindows(date)[i]
          IN  [frag |-> "", from |-> win.start, to |-> win.end, key |-> win.key]
     ELSE LET agent == AGENTS[i - NumWindows]
          IN  [frag |-> agent.query, from |-> date, to |-> date, key |-> agent.key]]

\* a retry ceiling that is one too high
onRateLimitOffByOne(n) == n <= 3

\* retry ceiling of the two throttle handlers
onRateLimit(n) == n < 3

onSecondaryRateLimit(n) == n < 3

\* total += count, dropped to an assignment
AccumulateLast(tot, count) == count

\* fetchDay: total += count
Accumulate(tot, count) == tot + count

\* writeFileSync turned into an append to the existing file
appendFileSync(st, date, rows) ==
  MapSet(st, date, (IF date \in DOMAIN st THEN st[date] ELSE <<>>) \o rows)

\* writeFileSync(join("data", `${date}.csv`), ...): replaces the file
writeFileSync(st, date, rows) == MapSet(st, date, rows)

\* the rows writeCSV puts under the header line
CSVRows(date, counts) ==
  <<[date |-> date, query |-> "total", count |-> counts["total"]]>> \o
  [i \in 1..Len(AGENTS) |->
     [date |-> date, query |-> AGENTS[i].key, count |-> counts[AGENTS[i].key]]]

(* ------------------------------------------------------- search endpoint *)
\* The endpoint's answers are an input: answer table `seed` gives the
\* total_count of every query.  Table 0 answers 0 everywhere.
AgentIndex(frag) == CHOOSE i \in 1..Len(AGENTS) : AGENTS[i].query = frag

Endpoint(seed, q) ==
  IF q.frag = ""
  THEN (seed * ((q.from % 100) + ((q.from \div 100) % 100))) % (seed + 2)
  ELSE (seed * (AgentIndex(q.frag) + (q.from % 100))) % (seed + 3)

\* the labels of a record file
Labels == {"total"} \cup {AGENTS[i].key : i \in DOMAIN AGENTS}

RECURSIVE SumWindows(_, _, _)
SumWindows(s, d, h) ==
  IF h < 0 THEN 0
  ELSE Endpoint(s, [frag |-> "", from |-> d * 100 + h]) + SumWindows(s, d, h - 1)

\* what the endpoint's answer table s holds for date d, by label: the sum of
\* its 24 window counts, and the count of each agent's query
Collected(s, d) ==
  [label \in Labels |->
     IF label = "total" THEN SumWindows(s, d, 23)
     ELSE LET a == CHOOSE i \in DOMAIN AGENTS : AGENTS[i].key = label
          IN  Endpoint(s, [frag |-> AGENTS[a].query, from |-> d])]

(* -------------------------------------------------------------- chart.ts *)
CHART_AGENTS ==
  << [name |-> "Claude Code",    keys |-> <<"claude">>],
     [name |-> "GitHub Copilot", keys |-> <<"copilot">>],
     [name |-> "Cursor",         keys |-> <<"cursor_editor", "cursor_bg">>],
     [name |-> "Devin AI",       keys |-> <<"devin">>],
     [name |-> "Google Jules",   keys |-> <<"jules">>],
     [name |-> "Aider",          keys |-> <<"aider">>],
     [name |-> "OpenAI Codex",   keys |-> <<"codex">>],
     [name |-> "OpenCode",       keys |-> <<"opencode">>],
     [name |-> "Amazon Q",       keys |-> <<"amazonq">>] >>

\* CHART_AGENTS.flatMap((a) => a.keys)
RECURSIVE FlatKeys(_)
FlatKeys(agents) ==
  IF agents = <<>> THEN <<>> ELSE Head(agents).keys \o FlatKeys(Tail(agents))

\* the key list made of the first key of every display agent
agentKeysFirstOnly == [i \in DOMAIN CHART_AGENTS |-> CHART_AGENTS[i].keys[1]]

agentKeys == FlatKeys(CHART_AGENTS)

\* exact rationals <<n, d>> with d > 0, kept in lowest terms
RECURSIVE GCD(_, _)
GCD(a, b) == IF b = 0 THEN a ELSE GCD(b, a % b)

Rat(n, d) == LET g == GCD(n, d) IN IF g = 0 THEN <<0, 1>> ELSE <<n \div g, d \div g>>

RAdd(a, b) == Rat(a[1] * b[2] + b[1] * a[2], a[2] * b[2])

RDivInt(a, n) == Rat(a[1], a[2] * n)

RZero == <<0, 1>>

\* (count / total) * 100
Pct(count, tot) == Rat(count * 100, tot)

\* the loop over the lines of one file: rows.set(query, count), date = d
RECURSIVE ParseRows(_, _, _)
ParseRows(lines, rows, date) ==
  IF lines = <<>> THEN [date |-> date, rows |-> rows]
  ELSE ParseRows(Tail(lines), MapSet(rows, Head(lines).query, Head(lines).count),
                 Head(lines).date)

ParseFile(lines) == ParseRows(lines, EmptyMap, 0)

\* the skip test without the zero case
SkippedOnlyMissing(rows) == "total" \notin DOMAIN rows

\* if (!total || total === 0) continue;
Skipped(rows) == "total" \notin DOMAIN rows \/ rows["total"] = 0

\* the sum that reads only the first key of the list
SumKeysFirstOnly(rows, keys) ==
  IF keys = <<>> THEN 0
  ELSE IF keys[1] \in DOMAIN rows THEN rows[keys[1]] ELSE 0

\* keys.reduce((sum, k) => sum + (rows.get(k) ?? 0), 0)
RECURSIVE SumKeys(_, _)
SumKeys(rows, keys) ==
  IF keys = <<>> THEN 0
  ELSE SumKeys(rows, SubSeq(keys, 1, Len(keys) - 1))
       + (IF keys[Len(keys)] \in DOMAIN rows THEN rows[keys[Len(keys)]] ELSE 0)

\* points.sort((a, b) => a.date.localeCompare(b.date)), a stable sort
RECURSIVE InsertPoint(_, _)
InsertPoint(x, sorted) ==
  IF sorted = <<>> THEN <<x>>
  ELSE IF x.date < sorted[Len(sorted)].date
       THEN Append(InsertPoint(x, SubSeq(sorted, 1, Len(sorted) - 1)), sorted[Len(sorted)])
       ELSE Append(sorted, x)

RECURSIVE SortPoints(_)
SortPoints(seq) ==
  IF seq = <<>> THEN <<>>
  ELSE InsertPoint(seq[Len(seq)], SortPoints(SubSeq(seq, 1, Len(seq) - 1)))

\* the points loadData pushes for the files in the order globSync lists them
RECURSIVE LoadPoints(_, _)
LoadPoints(st, files) ==
  IF files = <<>> THEN <<>>
  ELSE LET f        == ParseFile(st[Head(files)])
           tot      == f.rows["total"]
           agentSum == SumKeys(f.rows, agentKeys)
       IN  IF Skipped(f.rows) THEN LoadPoints(st, Tail(files))
           ELSE <<[date |-> f.date, percentage |-> Pct(agentSum, tot),
                   totalCommits |-> tot]>> \o LoadPoints(st, Tail(files))

loadData(st, files) == SortPoints(LoadPoints(st, files))

\* the per-agent percentages of one record, by display name
AgentPcts(rows) ==
  [name \in {CHART_AGENTS[i].name : i \in DOMAIN CHART_AGENTS} |->
     LET agent == CHOOSE a \in Range(CHART_AGENTS) : a.name = name
     IN  Pct(SumKeys(rows, agent.keys), rows["total"])]

\* the first loop of generateTable: allDates, combinedByDate and perAgent
\* (perAgent is kept as date -> agent name -> percentage)
RECURSIVE LoadTable(_, _, _)
LoadTable(st, files, acc) ==
  IF files = <<>> THEN acc
  ELSE LET f == ParseFile(st[Head(files)])
       IN  IF Skipped(f.rows) THEN LoadTable(st, Tail(files), acc)
           ELSE LoadTable(st, Tail(files),
                  [allDates       |-> acc.allDates \cup {f.date},
                   combinedByDate |-> MapSet(acc.combinedByDate, f.date,
                                        Pct(SumKeys(f.rows, agentKeys), f.rows["total"])),
                   perAgent       |-> MapSet(acc.perAgent, f.date, AgentPcts(f.rows))])

EmptyTable == [allDates |-> {}, combinedByDate |-> EmptyMap, perAgent |-> EmptyMap]

\* [...set].sort() of a set of dates or of months
RECURSIVE SortedSet(_)
SortedSet(S) ==
  IF S = {} THEN <<>>
  ELSE LET x == CHOOSE y \in S : \A z \in S : y <= z
       IN  <<x>> \o SortedSet(S \ {x})

\* d.slice(0, 7)
MonthOf(d) == d \div 100

\* a prefix test that compares the year only
StartsWithYear(d, m) == d \div 10000 = m \div 100

\* d.startsWith(m) for a month m
StartsWith(d, m) == d \div 100 = m

\* sortedDates.filter((d) => d.startsWith(m))
MonthDates(sortedDates, m) == SelectSeq(sortedDates, LAMBDA d : StartsWith(d, m))

\* mDates.reduce((sum, d) => sum + (byDate.get(d) ?? 0), 0) / mDates.length
RECURSIVE SumPct(_, _)
SumPct(byDate, ds) ==
  IF ds = <<>> THEN RZero
  ELSE RAdd(SumPct(byDate, SubSeq(ds, 1, Len(ds) - 1)),
            IF ds[Len(ds)] \in DOMAIN byDate THEN byDate[ds[Len(ds)]] ELSE RZero)

\* the value of 0 / 0
NaN == <<0, 0>>

MonthAvg(byDate, mDates) ==
  IF Len(mDates) = 0 THEN NaN ELSE RDivInt(SumPct(byDate, mDates), Len(mDates))

\* a < b on the rationals; false when either side is NaN
RLess(a, b) == a[2] > 0 /\ b[2] > 0 /\ a[1] * b[2] < b[1] * a[2]

\* the sort with the comparison the other way round
RECURSIVE InsertAgentAscending(_, _)
InsertAgentAscending(x, sorted) ==
  IF sorted = <<>> THEN <<x>>
  ELSE IF RLess(x.lastAvg, sorted[Len(sorted)].lastAvg)
       THEN Append(InsertAgentAscending(x, SubSeq(sorted, 1, Len(sorted) - 1)),
                   sorted[Len(sorted)])
       ELSE Append(sorted, x)

\* .sort((a, b) => b.lastAvg - a.lastAvg), a stable sort
RECURSIVE InsertAgent(_, _)
InsertAgent(x, sorted) ==
  IF sorted = <<>> THEN <<x>>
  ELSE IF RLess(sorted[Len(sorted)].lastAvg, x.lastAvg)
       THEN Append(InsertAgent(x, SubSeq(sorted, 1, Len(sorted) - 1)), sorted[Len(sorted)])
       ELSE Append(sorted, x)

RECURSIVE SortAgents(_)
SortAgents(seq) ==
  IF seq = <<>> THEN <<>>
  ELSE InsertAgent(seq[Len(seq)], SortAgents(SubSeq(seq, 1, Len(seq) - 1)))

\* avg.toFixed(2), as a number of hundredths
toFixed(avg) == (200 * avg[1] + avg[2]) \div (2 * avg[2])

\* the text of a cell: "-", "<hundredths / 100>%" or "**<hundredths / 100>%**"
Dash == [bold |-> FALSE, dash |-> TRUE, hundredths |-> 0]

Percent(h, bold) == [bold |-> bold, dash |-> FALSE, hundredths |-> h]

\* `**${avg.toFixed(2)}%**`
CombinedCell(avg) == Percent(toFixed(avg), TRUE)

\* avg < 0.005 ? "-" : `${avg.toFixed(2)}%`
AgentCell(avg) ==
  IF RLess(avg, <<5, 1000>>) THEN Dash ELSE Percent(toFixed(avg), FALSE)

\* `${monthNames[parseInt(mo, 10) - 1]} ${y.slice(2)}`
MonthLabel(m) == [month |-> m % 100, year |-> (m \div 100) % 100]

\* the text of the whole table: the header's labels and the rows
NoText == [labels |-> <<>>, rows |-> <<>>]

\* generateTable up to the text of the table
generateTable(st, files) ==
  LET t           == LoadTable(st, files, EmptyTable)
      sortedDates == SortedSet(t.allDates)
      months      == SortedSet({MonthOf(d) : d \in t.allDates})
      names       == IF t.perAgent = EmptyMap THEN <<>>
                     ELSE [i \in DOMAIN CHART_AGENTS |-> CHART_AGENTS[i].name]
      byDateOf(a) == [d \in DOMAIN t.perAgent |-> t.perAgent[d][a]]
      lastMonthDates == IF months = <<>> THEN <<>>
                        ELSE MonthDates(sortedDates, months[Len(months)])
      sortedAgents == SortAgents([i \in DOMAIN names |->
                        [agent   |-> names[i],
                         lastAvg |-> MonthAvg(byDateOf(names[i]), lastMonthDates)]])
      agentAvg    == [a \in Range(names) |->
                        [m \in Range(months) |->
                           MonthAvg(byDateOf(a), MonthDates(sortedDates, m))]]
      combinedAvg == [m \in Range(months) |->
                        MonthAvg(t.combinedByDate, MonthDates(sortedDates, m))]
      agentRows   == [i \in DOMAIN sortedAgents |->
                        [agent |-> sortedAgents[i].agent,
                         cells |-> [j \in DOMAIN months |->
                                      AgentCell(agentAvg[sortedAgents[i].agent][months[j]])]]]
      combinedRow == [agent |-> "**All Agents**",
                      cells |-> [j \in DOMAIN months |-> CombinedCell(combinedAvg[months[j]])]]
  IN  [allDates       |-> t.allDates,
       combinedByDate |-> t.combinedByDate,
       perAgent       |-> [a \in Range(names) |-> byDateOf(a)],
       sortedDates    |-> sortedDates,
       months         |-> months,
       agentAvg       |-> agentAvg,
       combinedAvg    |-> combinedAvg,
       sortedAgents   |-> sortedAgents,
       table          |-> [labels |-> [j \in DOMAIN months |-> MonthLabel(months[j])],
                           rows   |-> agentRows \o <<combinedRow>>]]

(* ------------------------------------------------------------- README.md *)
\* The document is a sequence of pieces: a sentinel comment, the text of a
\* table with the line breaks around it, or other text with no sentinel in it.
Piece(kind, text, table) == [kind |-> kind, text |-> text, table |-> table]

Text(s) == Piece("text", s, NoText)

StartSentinel == Piece("sentinel", "<!-- recent-table-start -->", NoText)

EndSentinel == Piece("sentinel", "<!-- recent-table-end -->", NoText)

\* `\n${table}\n`
TableText(table) == Piece("table", "", table)

\* the match of /<!-- recent-table-start -->[\s\S]*?<!-- recent-table-end -->/
\* with the quantifier taking as much as it can
MatchGreedy(doc) ==
  LET starts == {i \in DOMAIN doc :
                   doc[i] = StartSentinel /\ \E j \in DOMAIN doc : j > i /\ doc[j] = EndSentinel}
  IN  IF starts = {} THEN <<>>
      ELSE LET i == CHOOSE x \in starts : \A y \in starts : x <= y
               ends == {j \in DOMAIN doc : j > i /\ doc[j] = EndSentinel}
           IN  <<i, CHOOSE x \in ends : \A y \in ends : x >= y>>

\* the match of /<!-- recent-table-start -->[\s\S]*?<!-- recent-table-end -->/:
\* the leftmost start sentinel with an end sentinel after it, up to the
\* nearest end sentinel; <<>> without a match
Match(doc) ==
  LET starts == {i \in DOMAIN doc :
                   doc[i] = StartSentinel /\ \E j \in DOMAIN doc : j > i /\ doc[j] = EndSentinel}
  IN  IF starts = {} THEN <<>>
      ELSE LET i == CHOOSE x \in starts : \A y \in starts : x <= y
               ends == {j \in DOMAIN doc : j > i /\ doc[j] = EndSentinel}
           IN  <<i, CHOOSE x \in ends : \A y \in ends : x <= y>>

\* readme.replace(regex, `<!-- recent-table-start -->\n${table}\n<!-- recent-table-end -->`)
Replace(doc, table) ==
  LET m == Match(doc)
  IN  IF m = <<>> THEN doc
      ELSE SubSeq(doc, 1, m[1] - 1)
           \o <<StartSentinel, TableText(table), EndSentinel>>
           \o SubSeq(doc, m[2] + 1, Len(doc))

(* ----------------------------------------------------------------- state *)
VARIABLES
  pc,          \* position of the collector process
  token,       \* process.env.GITHUB_TOKEN is set
  args,        \* process.argv.slice(2)
  seed,        \* the endpoint's answer table during this run
  dates,       \* main: the parsed date range
  di,          \* main: index of the date being processed
  qi,          \* fetchDay: number of queries of the date already answered
  counts,      \* fetchDay: the counts map
  total,       \* fetchDay: the running total
  inflight,    \* requests sent and not yet settled
  retryCount,  \* retry count of the request in flight
  store,       \* data/<date>.csv, the rows below the header, by date
  exitCode,    \* process exit status, -1 while running
  issued,      \* history: the requests of this run in the order first sent
  answered,    \* history: date -> query -> count of its successful response, this run
  throttles,   \* history: throttle signals received by the request in flight
  written,     \* history: the dates whose file this run has written, in order
  before,      \* history: the store when this run started
  collected,   \* history: date -> label -> count the endpoint's table gave
               \*          the last completed collection of the date
  rpc,         \* position of the reporter process
  points,      \* reporter main: the result of loadData
  chartPng,    \* chart.png: whether written, and the series it shows
  tbl,         \* the numbers and the text of the table generateTable built
  rexit,       \* exit status of the reporter, -1 while running
  readme,      \* README.md
  readme0,     \* history: README.md before the reporter first ran
  spliced      \* history: generateTable has written README.md "never", "once"
               \*          or "again"

vars == <<pc, token, args, seed, dates, di, qi, counts, total, inflight,
          retryCount, store, exitCode, issued, answered, throttles, written,
          before, collected, rpc, points, chartPng, tbl, rexit, readme, readme0,
          spliced>>

docVars == <<readme, readme0, spliced>>
repVars == <<rpc, points, chartPng, tbl, rexit, docVars>>
colVars == <<pc, token, args, seed, dates, di, qi, counts, total, inflight,
             retryCount, exitCode, issued, answered, throttles, written,
             before, collected>>

runVars == <<token, args, seed, before>>
dayVars == <<qi, counts, total>>
histVars == <<issued, answered, written, collected>>

NoChart == [written |-> FALSE, series |-> <<>>]

NoTable == [allDates |-> {}, combinedByDate |-> EmptyMap, perAgent |-> EmptyMap,
            sortedDates |-> <<>>, months |-> <<>>, agentAvg |-> EmptyMap,
            combinedAvg |-> EmptyMap, sortedAgents |-> <<>>, table |-> NoText]

\* README.md of the repository: the title and the chart, the table region,
\* the sections after it
README ==
  << Text("# GitHub Coding Agent Monitor"), StartSentinel,
     Text("Monthly average, as a % of all public commits on GitHub."),
     EndSentinel, Text("## How It Works") >>

\* a README.md that generateTable has not written yet
Unspliced(doc) ==
  /\ readme = doc
  /\ readme0 = doc
  /\ spliced = "never"

CollectorIdle ==
  /\ pc = "idle"
  /\ token = FALSE
  /\ args = <<>>
  /\ seed = 0
  /\ dates = <<>>
  /\ di = 1
  /\ qi = 0
  /\ counts = EmptyMap
  /\ total = 0
  /\ inflight = {}
  /\ retryCount = 0
  /\ exitCode = 0
  /\ issued = <<>>
  /\ answered = EmptyMap
  /\ throttles = 0
  /\ written = <<>>
  /\ before = EmptyMap
  /\ collected = EmptyMap

ReporterIdle(at) ==
  /\ rpc = at
  /\ points = <<>>
  /\ chartPng = NoChart
  /\ tbl = NoTable
  /\ rexit = -1

\* the collector on an empty data directory
Init ==
  /\ CollectorIdle
  /\ store = EmptyMap
  /\ ReporterIdle("idle")
  /\ Unspliced(README)

\* the operator starts the collector: environment, command line and the
\* endpoint's answers are inputs
StartRun ==
  /\ pc = "idle"
  /\ \E t \in BOOLEAN, a \in ArgInputs, s \in 0..MaxSeed :
       /\ token' = t
       /\ args' = a
       /\ seed' = s
  /\ pc' = "main"
  /\ dates' = <<>>
  /\ di' = 1
  /\ qi' = 0
  /\ counts' = EmptyMap
  /\ total' = 0
  /\ inflight' = {}
  /\ retryCount' = 0
  /\ exitCode' = -1
  /\ issued' = <<>>
  /\ answered' = EmptyMap
  /\ throttles' = 0
  /\ written' = <<>>
  /\ before' = store
  /\ UNCHANGED <<store, collected, repVars>>

\* main without the credential check
MainNoCredentialCheck ==
  /\ pc = "main"
  /\ IF Len(args) = 0
     THEN /\ pc' = "exit" /\ exitCode' = 1 /\ UNCHANGED dates
     ELSE /\ dates' = parseDateRange(args)
          /\ pc' = "loop"
          /\ UNCHANGED exitCode
  /\ UNCHANGED <<repVars, runVars, dayVars, histVars, di, inflight, retryCount, throttles, store>>

\* main up to the for loop: credential check, then parseDateRange
Main ==
  /\ pc = "main"
  /\ IF ~token
     THEN /\ pc' = "exit" /\ exitCode' = 1 /\ UNCHANGED dates
     ELSE IF Len(args) = 0
     THEN /\ pc' = "exit" /\ exitCode' = 1 /\ UNCHANGED dates
     ELSE /\ dates' = parseDateRange(args)
          /\ pc' = "loop"
          /\ UNCHANGED exitCode
  /\ UNCHANGED <<repVars, runVars, dayVars, histVars, di, inflight, retryCount, throttles, store>>

\* for (const date of dates): enter fetchDay for the next date or finish
LoopDate ==
  /\ pc = "loop"
  /\ IF di > Len(dates)
     THEN /\ pc' = "exit" /\ exitCode' = 0
          /\ UNCHANGED dayVars
     ELSE /\ pc' = "issue"
          /\ qi' = 0 /\ counts' = EmptyMap /\ total' = 0
          /\ UNCHANGED exitCode
  /\ UNCHANGED <<repVars, runVars, histVars, dates, di, inflight, retryCount, throttles, store>>

\* searchCount: send the next query of the date and await it
SearchCount ==
  /\ pc = "issue"
  /\ LET q == Queries(dates[di])[qi + 1]
     IN  /\ inflight' = inflight \cup {q}
         /\ issued' = Append(issued, q)
  /\ retryCount' = 0
  /\ throttles' = 0
  /\ pc' = "await"
  /\ UNCHANGED <<repVars, runVars, dayVars, dates, di, store, exitCode,
                 answered, written, collected>>

\* the awaited request is answered: fetchDay records the count and goes on
Respond ==
  /\ pc = "await"
  /\ LET q     == Queries(dates[di])[qi + 1]
         count == Endpoint(seed, q)
     IN  /\ inflight' = inflight \ {q}
         /\ answered' = MapSet(answered, dates[di],
                                MapSet(IF dates[di] \in DOMAIN answered
                                       THEN answered[dates[di]] ELSE EmptyMap, q, count))
         /\ IF qi < NumWindows
            THEN /\ total' = Accumulate(total, count)
                 /\ counts' = IF qi + 1 = NumWindows
                              THEN MapSet(MapSet(counts, q.key, count), "total", total')
                              ELSE MapSet(counts, q.key, count)
            ELSE /\ counts' = MapSet(counts, q.key, count)
                 /\ UNCHANGED total
  /\ qi' = qi + 1
  /\ pc' = IF qi + 1 = NumWindows + Len(AGENTS) THEN "write" ELSE "issue"
  /\ retryCount' = 0
  /\ throttles' = 0
  /\ UNCHANGED <<repVars, runVars, dates, di, store, exitCode,
                 issued, written, collected>>

\* the request is throttled: the handler decides between retry and failure;
\* a failure rejects searchCount, fetchDay and main
Throttled(wantRetry) ==
  /\ pc = "await"
  /\ throttles' = throttles + 1
  /\ IF wantRetry
     THEN /\ retryCount' = retryCount + 1
          /\ UNCHANGED <<pc, exitCode, inflight>>
     ELSE /\ pc' = "exit" /\ exitCode' = 1
          /\ inflight' = {}
          /\ UNCHANGED retryCount
  /\ UNCHANGED <<repVars, runVars, dayVars, histVars, dates, di, store>>

RateLimit == Throttled(onRateLimit(retryCount))

SecondaryRateLimit == Throttled(onSecondaryRateLimit(retryCount))

\* a request error that still writes the counts gathered so far
RequestErrorWritesPartial ==
  /\ pc = "await"
  /\ pc' = "exit" /\ exitCode' = 1
  /\ inflight' = {}
  /\ LET date == dates[di]
         have == SelectSeq(<<"total">> \o [i \in DOMAIN AGENTS |-> AGENTS[i].key],
                           LAMBDA k : k \in DOMAIN counts)
     IN  /\ store' = writeFileSync(store, date,
                       [i \in DOMAIN have |->
                          [date |-> date, query |-> have[i], count |-> counts[have[i]]]])
         /\ written' = Append(written, date)
  /\ UNCHANGED <<repVars, runVars, dayVars, issued, answered, collected, dates,
                 di, retryCount, throttles>>

\* any other request error (network, 4xx, 5xx) rejects and ends the run
RequestError ==
  /\ pc = "await"
  /\ pc' = "exit" /\ exitCode' = 1
  /\ inflight' = {}
  /\ UNCHANGED <<repVars, runVars, dayVars, histVars, dates, di, retryCount, throttles, store>>

\* writeCSV(date, counts), then the next iteration of the loop
WriteCSV ==
  /\ pc = "write"
  /\ LET date == dates[di]
     IN  /\ store' = writeFileSync(store, date, CSVRows(date, counts))
         /\ written' = Append(written, date)
         /\ collected' = MapSet(collected, date, Collected(seed, date))
  /\ di' = di + 1
  /\ pc' = "loop"
  /\ UNCHANGED <<repVars, runVars, dayVars, dates, inflight, retryCount, throttles,
                 exitCode, issued, answered>>

\* the process is gone: its memory is discarded, its files and status stay
ProcessExit ==
  /\ pc = "exit"
  /\ pc' = "idle"
  /\ token' = FALSE
  /\ args' = <<>>
  /\ seed' = 0
  /\ dates' = <<>>
  /\ di' = 1
  /\ qi' = 0
  /\ counts' = EmptyMap
  /\ total' = 0
  /\ inflight' = {}
  /\ retryCount' = 0
  /\ issued' = <<>>
  /\ answered' = EmptyMap
  /\ throttles' = 0
  /\ written' = <<>>
  /\ before' = EmptyMap
  /\ UNCHANGED <<repVars, store, exitCode, collected>>

Next ==
  \/ StartRun
  \/ ProcessExit
  \/ Main
  \/ LoopDate
  \/ SearchCount
  \/ Respond
  \/ RateLimit
  \/ SecondaryRateLimit
  \/ RequestError
  \/ WriteCSV

Spec == Init /\ [][Next]_vars

(* -------------------------------------------------------------- reporter *)
ReportDays == <<20260214, 20260301, 20260215, 20260131, 20260216>>

Row(d, q, c) == [date |-> d, query |-> q, count |-> c]

\* the record files a data directory may hold for date d (rows below the
\* header): hand-made and partial files as well as files of the collector
RecordInputs(d) ==
  { <<>>,
    <<Row(d, "claude", 5)>>,
    <<Row(d, "total", 0), Row(d, "claude", 5)>>,
    <<Row(d, "total", 1000), Row(d, "claude", 10)>>,
    <<Row(d, "total", 2000), Row(d, "claude", 40)>>,
    <<Row(d, "total", 2000), Row(d, "copilot", 20), Row(d, "claude", 0),
      Row(d, "cursor_editor", 10), Row(d, "cursor_bg", 30)>>,
    CSVRows(d, [k \in Labels |->
                  IF k = "total" THEN 1000
                  ELSE CHOOSE i \in DOMAIN AGENTS : AGENTS[i].key = k]) }

InputStores ==
  UNION { {st \in [S -> UNION {RecordInputs(d) : d \in S}] :
             \A d \in S : st[d] \in RecordInputs(d)} :
          S \in SUBSET {ReportDays[i] : i \in 1..MaxFiles} }

\* globSync("data/*.csv"): the files in some order
GlobSync(st) ==
  {f \in [1..Cardinality(DOMAIN st) -> DOMAIN st] :
     \A i, j \in DOMAIN f : i # j => f[i] # f[j]}

\* the reporter on a data directory
InitR ==
  /\ CollectorIdle
  /\ store \in InputStores
  /\ ReporterIdle("main")
  /\ Unspliced(README)

\* main without the exit when loadData finds nothing
LoadDataNoExit ==
  /\ rpc = "main"
  /\ \E files \in GlobSync(store) : points' = loadData(store, files)
  /\ rpc' = "chart"
  /\ UNCHANGED <<colVars, store, chartPng, tbl, rexit, docVars>>

\* main: loadData, exit(1) when it finds nothing
LoadData ==
  /\ rpc = "main"
  /\ \E files \in GlobSync(store) :
       /\ points' = loadData(store, files)
       /\ IF Len(points') = 0
          THEN rpc' = "exit" /\ rexit' = 1
          ELSE rpc' = "chart" /\ UNCHANGED rexit
  /\ UNCHANGED <<colVars, store, chartPng, tbl, docVars>>

\* main: buildSpec, render and write chart.png
RenderChart ==
  /\ rpc = "chart"
  /\ chartPng' = [written |-> TRUE,
                  series  |-> [i \in DOMAIN points |->
                                 [x |-> points[i].date, y |-> points[i].percentage]]]
  /\ rpc' = "table"
  /\ UNCHANGED <<colVars, store, points, tbl, rexit, docVars>>

\* main: generateTable, which writes README.md, then the process ends
GenerateTable ==
  /\ rpc = "table"
  /\ \E files \in GlobSync(store) : tbl' = generateTable(store, files)
  /\ readme' = Replace(readme, tbl'.table)
  /\ spliced' = IF spliced = "never" THEN "once" ELSE "again"
  /\ rpc' = "exit"
  /\ rexit' = 0
  /\ UNCHANGED <<colVars, store, points, chartPng, readme0>>

NextR ==
  \/ LoadData
  \/ RenderChart
  \/ GenerateTable

SpecR == InitR /\ [][NextR]_vars

(* ------------------------------------------- reporter, table and document *)
\* The reporter run any number of times on a data directory whose records
\* span a month without dates, and on several README.md.
TableDays == <<20260131, 20260301, 20260302, 20260214, 20260303>>

\* the record files of date d: no total; a total of 0; 0.0025% for one
\* agent; 0.005%, 0.015% and three display agents at 4% each
TableInputs(d) ==
  { <<Row(d, "claude", 5)>>,
    <<Row(d, "total", 0), Row(d, "claude", 5)>>,
    <<Row(d, "total", 40000), Row(d, "claude", 1)>>,
    <<Row(d, "total", 20000), Row(d, "claude", 1), Row(d, "copilot", 3),
      Row(d, "cursor_editor", 200), Row(d, "cursor_bg", 600),
      Row(d, "devin", 800), Row(d, "jules", 800)>> }

TableStores ==
  UNION { {st \in [S -> UNION {TableInputs(d) : d \in S}] :
             \A d \in S : st[d] \in TableInputs(d)} :
          S \in SUBSET {TableDays[i] : i \in 1..MaxFiles} }

\* README.md as in the repository; with nothing around or between the
\* sentinels; without sentinels; with the sentinels in the wrong order; with
\* the end sentinel quoted again further down
ReadmeInputs ==
  { README,
    <<StartSentinel, EndSentinel>>,
    <<Text("# GitHub Coding Agent Monitor"), Text("## How It Works")>>,
    <<EndSentinel, Text("# GitHub Coding Agent Monitor"), StartSentinel>>,
    <<Text("# GitHub Coding Agent Monitor"), StartSentinel, Text("| Agent |"),
      EndSentinel, Text("## How It Works"), EndSentinel, Text("## Data")>> }

InitT ==
  /\ CollectorIdle
  /\ store \in TableStores
  /\ ReporterIdle("main")
  /\ \E doc \in ReadmeInputs : Unspliced(doc)

\* the reporter is started again on the same files
RunAgain ==
  /\ rpc = "exit"
  /\ rpc' = "main"
  /\ points' = <<>>
  /\ tbl' = NoTable
  /\ rexit' = -1
  /\ UNCHANGED <<colVars, store, chartPng, docVars>>

NextT ==
  \/ LoadData
  \/ RenderChart
  \/ GenerateTable
  \/ RunAgain

SpecT == InitT /\ [][NextT]_vars

(* ---------------------------------------------- collector, endpoint answers *)
\* One run under the assumption that the endpoint answers every request
\* within the retry ceiling: throttles only while the handler retries.
RateLimitRetried == onRateLimit(retryCount) /\ RateLimit

SecondaryRateLimitRetried == onSecondaryRateLimit(retryCount) /\ SecondaryRateLimit

\* the data directory before the run: empty, or one file of an earlier
\* collection under answer table 0
PriorStores ==
  {EmptyMap} \cup
  {[d \in {e} |-> CSVRows(e, Collected(0, e))] : e \in DateInputs}

InitAnswering ==
  /\ CollectorIdle
  /\ store \in PriorStores
  /\ ReporterIdle("idle")
  /\ Unspliced(README)

NextAnswering ==
  \/ StartRun
  \/ Main
  \/ LoopDate
  \/ SearchCount
  \/ Respond
  \/ RateLimitRetried
  \/ SecondaryRateLimitRetried
  \/ WriteCSV

\* the runtime resumes the process whenever it can go on, and the endpoint
\* answers a request that is waiting
SpecAnswering ==
  InitAnswering /\ [][NextAnswering]_vars
                /\ WF_vars(Main \/ LoopDate \/ SearchCount \/ Respond \/ WriteCSV)

(* ---------------------------------------------------------------- claims *)
\* the sum of the counts answered to the queries S of date D
RECURSIVE SumAnswered(_, _)
SumAnswered(D, S) ==
  IF S = {} THEN 0
  ELSE LET q == CHOOSE x \in S : TRUE IN answered[D][q] + SumAnswered(D, S \ {q})

\* the queries of date D answered in this run
Answered(D) == IF D \in DOMAIN answered THEN DOMAIN answered[D] ELSE {}

\* the window queries of date D answered in this run
WindowsAnswered(D) == {q \in Answered(D) : q.frag = "" /\ q.from \div 100 = D}

RowsOf(f, label) == {i \in DOMAIN f : f[i].query = label}

\* C1: for every date whose record this run has written, the total row
\* holds the sum of the counts answered to the 24 window queries of the date
C1_TotalIsSumOfWindows ==
  \A i \in DOMAIN written :
    LET D == written[i]
        W == WindowsAnswered(D)
    IN  /\ Cardinality(W) = 24
        /\ RowsOf(store[D], "total") # {}
        /\ \A r \in RowsOf(store[D], "total") : store[D][r].count = SumAnswered(D, W)

C1_Witness ==
  \E i \in DOMAIN written :
    /\ \E r \in RowsOf(store[written[i]], "total") : store[written[i]][r].count > 1
    /\ \E q1, q2 \in WindowsAnswered(written[i]) :
         /\ answered[written[i]][q1] # answered[written[i]][q2]
         /\ answered[written[i]][q1] > 0 /\ answered[written[i]][q2] > 0

\* every window query and every agent query of date D has been answered
AllAnswered(D) ==
  /\ {q.from : q \in WindowsAnswered(D)} = {D * 100 + h : h \in 0..23}
  /\ {q.frag : q \in {x \in Answered(D) : x.from = D}}
       = {AGENTS[a].query : a \in DOMAIN AGENTS}

SameFile(st1, st2, D) ==
  IF D \in DOMAIN st1 THEN D \in DOMAIN st2 /\ st1[D] = st2[D] ELSE D \notin DOMAIN st2

\* the file of D holds the counts this run was answered for D
HoldsAnswers(D) ==
  /\ D \in DOMAIN store
  /\ \A r \in DOMAIN store[D] :
       LET row == store[D][r]
       IN  IF row.query = "total" THEN row.count = SumAnswered(D, WindowsAnswered(D))
           ELSE \E q \in Answered(D) :
                  /\ q.key = row.query /\ q.from = D /\ answered[D][q] = row.count

FailedCollecting == pc = "exit" /\ exitCode = 1 /\ Len(issued) > 0

\* C2: a record is written for a date only after all its queries succeeded;
\* when a request fails while date k is collected the run ends, the files of
\* the earlier dates are as written and no file of date k or later is touched
C2_NoPartialDay ==
  /\ \A i \in DOMAIN written : AllAnswered(written[i])
  /\ FailedCollecting =>
       /\ written = SubSeq(dates, 1, di - 1)
       /\ \A j \in 1..(di - 1) : HoldsAnswers(dates[j])
       /\ \A j \in di..Len(dates) : SameFile(store, before, dates[j])

C2_Witness ==
  /\ FailedCollecting
  /\ di = 2 /\ qi > NumWindows
  /\ dates[2] \in DOMAIN before

\* C3: a throttle signal of either kind is answered by a retry of the same
\* request while fewer than 3 retries were made; the fourth consecutive
\* signal fails the request and ends the run with a non-zero status; an
\* answer after n signals arrives after exactly n retries and is recorded
C3_RetryCeiling ==
  [][ /\ (throttles' = throttles + 1) =>
           IF throttles < 3
           THEN /\ retryCount' = retryCount + 1
                /\ pc' = "await" /\ inflight' = inflight /\ issued' = issued
                /\ exitCode' = exitCode
           ELSE /\ throttles = 3 /\ retryCount' = 3
                /\ pc' = "exit" /\ exitCode' = 1
                /\ written' = written /\ store' = store
      /\ (pc = "await" /\ pc' \in {"issue", "write"}) =>
           /\ retryCount = throttles /\ throttles <= 3
           /\ \E q \in inflight :
                /\ counts'[q.key] = Endpoint(seed, q)
                /\ answered'[dates[di]][q] = Endpoint(seed, q)
    ]_vars

C3_Witness ==
  /\ pc = "exit" /\ exitCode = 1
  /\ throttles = 4 /\ retryCount = 3
  /\ Len(written) = 1

\* C4: one request in flight at most; dates ascending; per date the 24
\* windows in hour order, then the agents in list order, 34 queries in all;
\* the record of a date is written before the first query of the next date
C4_Sequential ==
  /\ Cardinality(inflight) <= 1
  /\ inflight # {} => Len(issued) > 0 /\ inflight = {issued[Len(issued)]}
  /\ \A i, j \in DOMAIN dates : i < j => dates[i] < dates[j]
  /\ \A k \in DOMAIN issued :
       LET j == (k - 1) \div 34 + 1
           n == (k - 1) % 34
       IN  /\ j <= Len(dates)
           /\ IF n < 24
              THEN issued[k].frag = "" /\ issued[k].from = dates[j] * 100 + n
              ELSE issued[k].frag = AGENTS[n - 23].query /\ issued[k].from = dates[j]
  /\ \A i \in DOMAIN written : written[i] = dates[i]
  /\ 34 * Len(written) <= Len(issued)
  /\ Len(issued) <= 34 * (Len(written) + 1)

C4_Witness ==
  /\ Len(issued) = 35 /\ inflight # {}
  /\ Len(written) = 1

IsDate(d) ==
  LET y == d \div 10000  m == (d \div 100) % 100  dd == d % 100
  IN  m \in 1..12 /\ dd \in 1..DaysIn(y, m)

RangeEnd == IF Len(args) > 1 THEN args[2] ELSE args[1]

ExactlyTheRange ==
  /\ {written[i] : i \in DOMAIN written} = {d \in args[1]..RangeEnd : IsDate(d)}
  /\ \A i, j \in DOMAIN written : i # j => written[i] # written[j]
  /\ \A d \in DOMAIN written : written[d] \in DOMAIN store
  /\ \A d \in (DOMAIN store \cup DOMAIN before) \ (args[1]..RangeEnd) :
       SameFile(store, before, d)

\* C5: with a credential, start <= end and an endpoint that answers within
\* the retry ceiling, the run ends with status 0 having written exactly one
\* file for each calendar date of the range and no other file
C5_OneFilePerDate ==
  (pc = "main" /\ token /\ Len(args) > 0 /\ args[1] <= RangeEnd)
    ~> (pc = "exit" /\ exitCode = 0 /\ ExactlyTheRange)

C5_Witness ==
  /\ pc = "exit" /\ exitCode = 0
  /\ store # EmptyMap /\ before # EmptyMap
  /\ Len(args) = 2 /\ args[1] < args[2]
  /\ Len(written) = 2 /\ written[1] \div 100 # written[2] \div 100

\* C6: without a date argument or without the credential the collector
\* exits with a non-zero status, no request issued and no file touched
C6_UsageError ==
  (pc \notin {"idle"} /\ (~token \/ Len(args) = 0)) =>
     /\ pc \in {"main", "exit"}
     /\ pc = "exit" => exitCode = 1
     /\ issued = <<>> /\ inflight = {} /\ written = <<>>
     /\ store = before

C6_Witness ==
  /\ pc = "exit" /\ exitCode = 1
  /\ token /\ Len(args) = 0
  /\ store # EmptyMap

\* C7: after any sequence of runs every file holds exactly one total row and
\* one row per agent key, all with the file's date and the counts of the
\* last completed collection of that date; no (date, label) pair occurs twice
\* (there are as many distinct pairs as there are rows)
C7_OverwriteWholesale ==
  /\ \A d \in DOMAIN store :
       /\ d \in DOMAIN collected
       /\ Len(store[d]) = Cardinality(Labels)
       /\ \A label \in Labels : Cardinality(RowsOf(store[d], label)) = 1
       /\ \A r \in DOMAIN store[d] :
            /\ store[d][r].date = d
            /\ store[d][r].query \in Labels
            /\ store[d][r].count = collected[d][store[d][r].query]
  /\ Cardinality(UNION {{<<store[d][r].date, store[d][r].query>> : r \in DOMAIN store[d]} :
                          d \in DOMAIN store})
       = Cardinality(UNION {{<<d, r>> : r \in DOMAIN store[d]} : d \in DOMAIN store})

C7_Witness ==
  \E d \in DOMAIN store \cap DOMAIN before :
    /\ store[d] # before[d]
    /\ \E i \in DOMAIN written : written[i] = d
    /\ \E r \in DOMAIN store[d] : store[d][r].query = "claude" /\ store[d][r].count > 0

(* ------------------------------------------------------- reporter claims *)
\* the count of the last row of file f labelled label, -1 without such a row
LastCount(f, label) ==
  IF RowsOf(f, label) = {} THEN -1
  ELSE f[CHOOSE i \in RowsOf(f, label) : \A j \in RowsOf(f, label) : j <= i].count

\* the dates of the records with a total above 0
UsableDates == {d \in DOMAIN store : LastCount(store[d], "total") > 0}

SeqDates(seq) == {seq[i].date : i \in DOMAIN seq}

\* C8: a date whose record has no total row or a total of 0 is in neither
\* the chart series nor the table's dates, whatever its agent counts; every
\* date with a total above 0 is in both
C8_ZeroTotalExcluded ==
  /\ rpc \in {"chart", "table", "exit"} => SeqDates(points) = UsableDates
  /\ chartPng.written =>
       /\ {chartPng.series[i].x : i \in DOMAIN chartPng.series} = UsableDates
       /\ Len(chartPng.series) = Cardinality(UsableDates)
  /\ (rpc = "exit" /\ rexit = 0) =>
       /\ tbl.allDates = UsableDates
       /\ DOMAIN tbl.combinedByDate = UsableDates
       /\ Range(tbl.sortedDates) = UsableDates

\* the scenario of three records with totals 1000, 2000 and 0
C8_Witness ==
  /\ rpc = "exit" /\ rexit = 0
  /\ DOMAIN store = {20260214, 20260215, 20260301}
  /\ store[20260214] = <<Row(20260214, "total", 1000), Row(20260214, "claude", 10)>>
  /\ store[20260215] = <<Row(20260215, "total", 2000), Row(20260215, "claude", 40)>>
  /\ store[20260301] = <<Row(20260301, "total", 0), Row(20260301, "claude", 5)>>
  /\ chartPng.series = <<[x |-> 20260214, y |-> <<1, 1>>], [x |-> 20260215, y |-> <<2, 1>>]>>
  /\ tbl.allDates = {20260214, 20260215}

RECURSIVE SumPresent(_, _)
SumPresent(f, K) ==
  IF K = {} THEN 0
  ELSE LET k == CHOOSE x \in K : TRUE
       IN  (IF RowsOf(f, k) = {} THEN 0 ELSE LastCount(f, k)) + SumPresent(f, K \ {k})

\* the rational v is (s / t) * 100
IsPct(v, s, t) == v[2] > 0 /\ v[1] * t = 100 * s * v[2]

AllChartKeys == UNION {Range(CHART_AGENTS[i].keys) : i \in DOMAIN CHART_AGENTS}

\* C9: for a record with total T > 0 the percentage of a display agent is
\* (sum of the counts of its keys present in the record / T) * 100 and the
\* combined percentage is (sum of all agent key counts present / T) * 100
C9_Percentages ==
  /\ rpc \in {"chart", "table", "exit"} =>
       \A i \in DOMAIN points :
         IsPct(points[i].percentage,
               SumPresent(store[points[i].date], AllChartKeys),
               LastCount(store[points[i].date], "total"))
  /\ (rpc = "exit" /\ rexit = 0) =>
       \A d \in UsableDates :
         /\ IsPct(tbl.combinedByDate[d], SumPresent(store[d], AllChartKeys),
                  LastCount(store[d], "total"))
         /\ \A a \in DOMAIN CHART_AGENTS :
              IsPct(tbl.perAgent[CHART_AGENTS[a].name][d],
                    SumPresent(store[d], Range(CHART_AGENTS[a].keys)),
                    LastCount(store[d], "total"))

C9_Witness ==
  /\ rpc = "exit" /\ rexit = 0
  /\ \E d \in UsableDates :
       /\ RowsOf(store[d], "cursor_editor") # {} /\ RowsOf(store[d], "cursor_bg") # {}
       /\ RowsOf(store[d], "devin") = {}
       /\ tbl.perAgent["Cursor"][d] = <<2, 1>>
       /\ tbl.perAgent["Devin AI"][d] = <<0, 1>>
       /\ tbl.combinedByDate[d] = <<3, 1>>

RECURSIVE RSum(_, _)
RSum(byDate, D) ==
  IF D = {} THEN RZero
  ELSE LET d == CHOOSE x \in D : TRUE IN RAdd(byDate[d], RSum(byDate, D \ {d}))

\* the rational v is the mean of byDate over the non-empty set D
IsMean(v, byDate, D) ==
  LET sum == RSum(byDate, D)
  IN  v[2] > 0 /\ v[1] * sum[2] * Cardinality(D) = sum[1] * v[2]

\* C10: the value of every cell is the mean of its row's per-date
\* percentages over exactly the usable dates of the cell's month
C10_MonthlyMean ==
  (rpc = "exit" /\ rexit = 0) =>
    /\ Range(tbl.months) = {d \div 100 : d \in UsableDates}
    /\ \A m \in Range(tbl.months) :
         LET D == {d \in UsableDates : d \div 100 = m}
         IN  /\ IsMean(tbl.combinedAvg[m], tbl.combinedByDate, D)
             /\ \A a \in DOMAIN CHART_AGENTS :
                  IsMean(tbl.agentAvg[CHART_AGENTS[a].name][m],
                         tbl.perAgent[CHART_AGENTS[a].name], D)

C10_Witness ==
  /\ rpc = "exit" /\ rexit = 0
  /\ tbl.months = <<202602, 202603>>
  /\ tbl.allDates = {20260214, 20260215, 20260301}
  /\ tbl.combinedByDate[20260214] = <<1, 1>>
  /\ tbl.combinedByDate[20260215] = <<2, 1>>
  /\ tbl.combinedAvg[202602] = <<3, 2>>
  /\ tbl.agentAvg["Claude Code"][202603] = <<0, 1>>
  /\ tbl.agentAvg["Cursor"][202603] = <<2, 1>>

(* ------------------------------------------- table and document claims *)
\* the table region of a document: the positions of the first start sentinel
\* that an end sentinel follows and of the first end sentinel after it,
\* <<>> when the document has no such pair
TableRegion(doc) ==
  LET pairs == {p \in (DOMAIN doc) \X (DOMAIN doc) :
                  /\ p[1] < p[2]
                  /\ doc[p[1]].text = "<!-- recent-table-start -->"
                  /\ doc[p[2]].text = "<!-- recent-table-end -->"}
  IN  IF pairs = {} THEN <<>>
      ELSE CHOOSE p \in pairs : \A q \in pairs : p[1] < q[1] \/ (p[1] = q[1] /\ p[2] <= q[2])

\* README.md differs from the document the reporter first found at most
\* between the two sentinels
OnlyTheRegionChanged ==
  LET r0 == TableRegion(readme0)
      r  == TableRegion(readme)
  IN  IF r0 = <<>> THEN readme = readme0
      ELSE /\ r # <<>>
           /\ SubSeq(readme, 1, r[1]) = SubSeq(readme0, 1, r0[1])
           /\ SubSeq(readme, r[2], Len(readme)) = SubSeq(readme0, r0[2], Len(readme0))
           /\ spliced # "never" => r[2] = r[1] + 2 /\ readme[r[1] + 1].kind = "table"

\* C11: the splice leaves both sentinels and everything before the start
\* sentinel and after the end sentinel as they were, and a splice applied
\* again on the same record files leaves the whole document as the first
\* splice left it
C11_SpliceIdempotent ==
  /\ []OnlyTheRegionChanged
  /\ [][(rpc = "table" /\ spliced # "never") => readme' = readme]_vars

\* the table spliced twice into a document that quotes the end sentinel
\* again below the region
C11_Witness ==
  /\ spliced = "again"
  /\ Len(readme0) = 7
  /\ Len(readme) = 7
  /\ readme[3].kind = "table"
  /\ Len(readme[3].table.rows) = Len(CHART_AGENTS) + 1
  /\ readme[6] = EndSentinel

\* C12: when no record file has a total above 0 the reporter goes from
\* loadData straight to a non-zero exit: chart.png is not written and
\* README.md is not written
C12_NoDataExit ==
  UsableDates = {} =>
    /\ rpc \in {"main", "exit"}
    /\ rpc = "exit" => rexit = 1
    /\ chartPng = NoChart
    /\ tbl = NoTable
    /\ spliced = "never"
    /\ readme = readme0

\* a directory of one record without total and one with a total of 0
C12_Witness ==
  /\ rpc = "exit"
  /\ rexit = 1
  /\ readme0 = README
  /\ \E d, e \in DOMAIN store :
       /\ RowsOf(store[d], "total") = {}
       /\ LastCount(store[e], "total") = 0
  /\ C12_NoDataExit

\* the mean the cell of row i and column j is rendered from
CellMean(i, j) ==
  IF i = Len(tbl.table.rows) THEN tbl.combinedAvg[tbl.months[j]]
  ELSE tbl.agentAvg[tbl.table.rows[i].agent][tbl.months[j]]

\* the rational v is below 0.005
BelowEpsilon(v) == v[2] > 0 /\ 1000 * v[1] < 5 * v[2]

\* C13: every cell of the table whose monthly mean is below 0.005 is the
\* dash, in the agent rows and in the All Agents row
C13_DashBelowEpsilon ==
  (rpc = "exit" /\ rexit = 0) =>
    \A i \in DOMAIN tbl.table.rows : \A j \in DOMAIN tbl.months :
      BelowEpsilon(CellMean(i, j)) => tbl.table.rows[i].cells[j].dash

\* the months of the calendar from the first to the last month with a
\* usable date that have no usable date themselves
EmptyMonths ==
  LET used == {d \div 100 : d \in UsableDates}
  IN  {m \in 202501..202612 :
         /\ m % 100 \in 1..12
         /\ m \notin used
         /\ \E a, b \in used : a < m /\ m < b}

\* C14: a month without usable dates between months that have some is in
\* the table as a column of placeholders, and no mean of the table is the
\* result of a division by zero
C14_EmptyMonthPlaceholder ==
  (rpc = "exit" /\ rexit = 0) =>
    /\ \A m \in EmptyMonths :
         \E j \in DOMAIN tbl.months :
           /\ tbl.months[j] = m
           /\ \A i \in DOMAIN tbl.table.rows : tbl.table.rows[i].cells[j].dash
    /\ \A i \in DOMAIN tbl.table.rows : \A j \in DOMAIN tbl.months :
         CellMean(i, j) # NaN

\* the place of a display agent in CHART_AGENTS
DefinitionOrder(name) == CHOOSE i \in DOMAIN CHART_AGENTS : CHART_AGENTS[i].name = name

\* a display agent's mean percentage over the usable dates of the most
\* recent month with usable dates
LastMonthMean(name) ==
  LET last == CHOOSE m \in {d \div 100 : d \in UsableDates} :
                \A d \in UsableDates : d \div 100 <= m
      D    == {d \in UsableDates : d \div 100 = last}
  IN  RDivInt(RSum(tbl.perAgent[name], D), Cardinality(D))

\* C15: the table has one row for each display agent and then the All
\* Agents row; the agent rows are in non-increasing order of the agents'
\* means over the most recent month, agents with equal means in the order
\* of their definition
C15_AgentOrder ==
  (rpc = "exit" /\ rexit = 0) =>
    LET rows == tbl.table.rows
        n    == Len(CHART_AGENTS)
    IN  /\ Len(rows) = n + 1
        /\ rows[n + 1].agent = "**All Agents**"
        /\ {rows[i].agent : i \in 1..n} = {CHART_AGENTS[i].name : i \in 1..n}
        /\ \A i \in 1..(n - 1) :
             LET a == LastMonthMean(rows[i].agent)
                 b == LastMonthMean(rows[i + 1].agent)
             IN  /\ a[1] * b[2] >= b[1] * a[2]
                 /\ a = b => DefinitionOrder(rows[i].agent) < DefinitionOrder(rows[i + 1].agent)

\* March 2026 decides the order: three agents tie at 2%, then Copilot
\* before Claude Code, then the agents at 0
C15_Witness ==
  /\ rpc = "exit" /\ rexit = 0
  /\ tbl.months = <<202601, 202603>>
  /\ [i \in 1..Len(CHART_AGENTS) |-> tbl.table.rows[i].agent] =
       <<"Cursor", "Devin AI", "Google Jules", "GitHub Copilot", "Claude Code",
         "Aider", "OpenAI Codex", "OpenCode", "Amazon Q">>
  /\ tbl.agentAvg["Claude Code"][202601] = <<1, 400>>
  /\ LastMonthMean("Cursor") = <<2, 1>>
  /\ LastMonthMean("GitHub Copilot") = <<3, 400>>

\* the sum of the counts of all rows of file f other than the total row
RECURSIVE SumAgentRows(_)
SumAgentRows(f) ==
  IF f = <<>> THEN 0
  ELSE (IF Head(f).query = "total" THEN 0 ELSE Head(f).count) + SumAgentRows(Tail(f))

\* file f has the rows writeCSV writes: one for the total and one for each key
\* of AGENTS
CollectorFormat(f) ==
  /\ Len(f) = Len(AGENTS) + 1
  /\ {f[i].query : i \in DOMAIN f} = {"total"} \cup {AGENTS[i].key : i \in DOMAIN AGENTS}

DisplayNames == {CHART_AGENTS[i].name : i \in DOMAIN CHART_AGENTS}

\* C16: the keys of AGENTS are the keys of CHART_AGENTS and every key is in
\* the list of exactly one display agent, once; so for every usable date the
\* combined percentage is the sum of the display agents' percentages, and
\* for a file of the collector it is the percentage of the sum of all its
\* agent rows
C16_KeysPartition ==
  /\ {AGENTS[i].key : i \in DOMAIN AGENTS} = AllChartKeys
  /\ \A k \in AllChartKeys :
       Cardinality({p \in (DOMAIN CHART_AGENTS) \X (DOMAIN AGENTS) :
                      /\ p[2] \in DOMAIN CHART_AGENTS[p[1]].keys
                      /\ CHART_AGENTS[p[1]].keys[p[2]] = k}) = 1
  /\ rpc \in {"chart", "table", "exit"} =>
       \A i \in DOMAIN points :
         CollectorFormat(store[points[i].date]) =>
           IsPct(points[i].percentage, SumAgentRows(store[points[i].date]),
                 points[i].totalCommits)
  /\ (rpc = "exit" /\ rexit = 0) =>
       \A d \in UsableDates :
         /\ tbl.combinedByDate[d] =
              RSum([a \in DisplayNames |-> tbl.perAgent[a][d]], DisplayNames)
         /\ CollectorFormat(store[d]) =>
              IsPct(tbl.combinedByDate[d], SumAgentRows(store[d]),
                    LastCount(store[d], "total"))

\* a file of the collector with the counts 1 to 10 and a total of 1000:
\* 5.5% combined, 1.5% of it Cursor's two keys
C16_Witness ==
  /\ rpc = "exit" /\ rexit = 0
  /\ \E d \in UsableDates :
       /\ CollectorFormat(store[d])
       /\ SumAgentRows(store[d]) = 55
       /\ tbl.combinedByDate[d] = <<11, 2>>
       /\ tbl.perAgent["Cursor"][d] = <<3, 2>>
       /\ \E i \in DOMAIN points : points[i].date = d /\ points[i].percentage = <<11, 2>>

TypeOK ==
  /\ pc \in {"idle", "main", "loop", "issue", "await", "write", "exit"}
  /\ retryCount \in 0..3
  /\ qi \in 0..(NumWindows + Len(AGENTS))
====
